---- MODULE Spec2Model ----
(***************************************************************************)
(* Control plane of the CS5368 audio ADC driver                            *)
(* (sound/soc/codecs/cs5368.c): the cached register map, the runtime power *)
(* sequencing, the clock divider and the format/TDM negotiation.           *)
(*                                                                         *)
(* The register cache (regmap) and the ASoC control helpers are not part   *)
(* of the driver file; their behaviour is modelled from the Register Store *)
(* contract of the specification, driven by the access tables, default     *)
(* table and init sequence the driver file declares.                       *)
(***************************************************************************)
EXTENDS Integers, Sequences, FiniteSets, TLC

VARIABLES
    bound,        \* "unbound" | "bound" | "failed": outcome of cs5368_i2c_probe
    cache,        \* regmap register cache (the shadow): register -> byte
    cache_only,   \* regmap cache_only flag (the spec's bypass)
    cache_dirty,  \* regmap cache_dirty flag
    hw,           \* register contents of the device itself
    supplies,     \* enable count of the regulator bulk
    reset,        \* TRUE when the reset line is asserted (gpio value 1)
    mclk_freq,    \* priv->mclk_freq
    tdm,          \* priv->tdm
    rpm,          \* runtime-PM status kept by the PM core: "suspended" | "active"
    pc,           \* position inside a running power callback, "idle" otherwise
    tx,           \* bus transactions issued by the current/last operation
    lastOp,       \* the current/last operation, its arguments and its result
    co            \* the last configuration call that ran inside a power callback

vars == <<bound, cache, cache_only, cache_dirty, hw, supplies, reset,
          mclk_freq, tdm, rpm, pc, tx, lastOp, co>>

----------------------------------------------------------------------------
(* Bounds of the model                                                     *)

\* Cap on the regulator enable count (a failed resume can be retried).
MaxEnable == 2
\* Number of entries of the control table (Controls below) that are exercised.
NumControls == 1
\* Largest multiple of rate * ratio offered as master clock to the divider.
MaxDiv == 5

----------------------------------------------------------------------------
(* Register addresses and masks                                            *)

REG_REVI == 0
REG_GCTL == 1
REG_OVFL == 2
REG_OVFM == 3
REG_HPF == 4
REG_RSVD1 == 5
REG_PDN == 6
REG_RSVD2 == 7
REG_MUTE == 8
REG_RSVD3 == 9
REG_SDEN == 10
MAX_REG == REG_SDEN

REG_GCTL_MDIV_MASK == 48

AllRegs == 0..MAX_REG
NoValue == 0 - 1

\* Result codes of the operations.
OK == "OK"
EINVAL == "EINVAL"          \* InvalidArgument / UnsupportedRatio
EIO == "EIO"                \* access refused by an access table (ReservedAddress)
ETRANSPORT == "ETRANSPORT"  \* bus transaction failed
ERESOURCE == "ERESOURCE"    \* regulator / probe resource failure
PENDING == "PENDING"        \* callback still running

----------------------------------------------------------------------------
(* Bit arithmetic on bytes                                                 *)

Pow2(n) == IF n = 0 THEN 1 ELSE IF n = 1 THEN 2 ELSE IF n = 2 THEN 4
           ELSE IF n = 3 THEN 8 ELSE IF n = 4 THEN 16 ELSE IF n = 5 THEN 32
           ELSE IF n = 6 THEN 64 ELSE IF n = 7 THEN 128 ELSE 256

Bit(v, i) == (v \div Pow2(i)) % 2

RECURSIVE MergeFrom(_, _, _, _)
MergeFrom(i, orig, mask, val) ==
    IF i > 7 THEN 0
    ELSE Pow2(i) * (IF Bit(mask, i) = 1 THEN Bit(val, i) ELSE Bit(orig, i))
         + MergeFrom(i + 1, orig, mask, val)

\* (orig & ~mask) | (val & mask)
MaskedMerge(orig, mask, val) == MergeFrom(0, orig, mask, val)

----------------------------------------------------------------------------
(* Static tables of the driver                                             *)

\* Variant: the pin-enable entry is missing from the init sequence.
cs5368_reg_init_NoSden ==
    << <<REG_GCTL, 139>>, <<REG_OVFM, 0>> >>

\* Variant: the init sequence leaves the overflow mask at its default.
cs5368_reg_init_OvfmFF ==
    << <<REG_GCTL, 139>>, <<REG_OVFM, 255>>, <<REG_SDEN, 10>> >>

cs5368_reg_init ==
    << <<REG_GCTL, 139>>, <<REG_OVFM, 0>>, <<REG_SDEN, 10>> >>

cs5368_reg_defaults ==
    (REG_REVI :> 128) @@ (REG_GCTL :> 0) @@ (REG_OVFL :> 255) @@
    (REG_OVFM :> 255) @@ (REG_HPF :> 0) @@ (REG_PDN :> 0) @@
    (REG_MUTE :> 0) @@ (REG_SDEN :> 0)

\* Variant: the first reserved address is missing from the read table.
cs5368_rd_no_ranges_NoRsvd1 == {REG_RSVD2, REG_RSVD3}

cs5368_rd_no_ranges == {REG_RSVD1, REG_RSVD2, REG_RSVD3}

\* Variant: the revision register is missing from the write table.
cs5368_wr_no_ranges_NoRevi == {REG_RSVD1, REG_RSVD2, REG_RSVD3}

cs5368_wr_no_ranges == {REG_REVI, REG_RSVD1, REG_RSVD2, REG_RSVD3}

\* Variant: the overflow mask is declared volatile too.
cs5368_volatile_yes_ranges_WithOvfm == {REG_OVFL, REG_OVFM}

\* Variant: no register is declared volatile.
cs5368_volatile_yes_ranges_None == {}

cs5368_volatile_yes_ranges == {REG_OVFL}

regmap_readable(reg) == reg \in AllRegs /\ reg \notin cs5368_rd_no_ranges

regmap_writeable(reg) == reg \in AllRegs /\ reg \notin cs5368_wr_no_ranges

regmap_volatile(reg) == reg \in cs5368_volatile_yes_ranges

CachedRegs == DOMAIN cs5368_reg_defaults

----------------------------------------------------------------------------
(* Control table: the single-bit switches of the driver, <<register, shift>>.
   All are declared with max = 1 and invert = 1.  The entries are listed
   round-robin over the three registers so that a prefix of the table touches
   each of them.                                                            *)

Controls ==
    << <<REG_HPF, 0>>, <<REG_MUTE, 0>>, <<REG_PDN, 0>>,
       <<REG_HPF, 1>>, <<REG_MUTE, 1>>, <<REG_PDN, 1>>,
       <<REG_HPF, 2>>, <<REG_MUTE, 2>>, <<REG_PDN, 2>>,
       <<REG_HPF, 3>>, <<REG_MUTE, 3>>, <<REG_PDN, 3>>,
       <<REG_HPF, 4>>, <<REG_MUTE, 4>>, <<REG_HPF, 5>>, <<REG_MUTE, 5>>,
       <<REG_HPF, 6>>, <<REG_MUTE, 6>>, <<REG_HPF, 7>>, <<REG_MUTE, 7>> >>

ControlIdx == 1..(IF NumControls < Len(Controls) THEN NumControls ELSE Len(Controls))

----------------------------------------------------------------------------
(* Inputs the host framework may pass                                      *)

\* Sample rates offered to hw_params (the DAI accepts 2000..216000).
Rates == {32000, 44100, 48000, 96000, 192000}

\* Master clock frequencies offered to set_sysclk.
Mclks == {12288000, 24576000, 49152000}

SND_SOC_CLOCK_IN == 0
SND_SOC_CLOCK_OUT == 1
ClockDirs == {SND_SOC_CLOCK_IN, SND_SOC_CLOCK_OUT}

\* The master clock latched in the format-negotiation environment.
FormatMclks == {24576000}

SND_SOC_DAIFMT_I2S == 1
SND_SOC_DAIFMT_LEFT_J == 3
SND_SOC_DAIFMT_DSP_A == 4
SND_SOC_DAIFMT_FORMAT_MASK == 15
SND_SOC_DAIFMT_BP_FP == 4096
SND_SOC_DAIFMT_BC_FC == 16384
SND_SOC_DAIFMT_CLOCK_PROVIDER_MASK == 61440

\* fmt words offered to set_fmt: format | clock provider.
FormatModes == {SND_SOC_DAIFMT_I2S, SND_SOC_DAIFMT_LEFT_J, SND_SOC_DAIFMT_DSP_A}
ClockModes == {SND_SOC_DAIFMT_BP_FP, SND_SOC_DAIFMT_BC_FC}
Fmts == {f + c : f \in FormatModes, c \in ClockModes}

\* fmt & SND_SOC_DAIFMT_FORMAT_MASK (the low four bits)
FormatOf(fmt) == fmt % (SND_SOC_DAIFMT_FORMAT_MASK + 1)
\* fmt & SND_SOC_DAIFMT_CLOCK_PROVIDER_MASK (bits 12..15)
ClockOf(fmt) == ((fmt \div 4096) % 16) * 4096

SlotCounts == {1, 2, 4, 8}
SlotWidths == {16, 32}
\* <<tx_mask, rx_mask>> pairs
SlotMasks == {<<0, 0>>, <<255, 3>>}

----------------------------------------------------------------------------
(* Power state of the device                                               *)

PowerStateOf(sup, rst) ==
    IF sup = 0 THEN "Unpowered" ELSE IF rst THEN "Resetting" ELSE "Active"

PowerState == PowerStateOf(supplies, reset)

\* The device answers on the bus only when supplied and out of reset.
HwUp == PowerState = "Active"

\* Outcomes of a bus transaction: it may fail at any time, and it fails when
\* the device cannot answer.
BusOutcomes == IF HwUp THEN BOOLEAN ELSE {FALSE}

----------------------------------------------------------------------------
(* Register Store: the regmap operations the driver calls.  A store value  *)
(* s carries the cache, the hardware registers, the transactions issued,   *)
(* the dirty flag and the result.                                          *)
(* only  = regmap cache_only;  busok = the bus transaction succeeds.       *)

Store == [cache |-> cache, hw |-> hw, tx |-> <<>>, dirty |-> cache_dirty,
          rc |-> OK, val |-> NoValue]

CachePut(c, reg, val) ==
    IF reg \in DOMAIN c /\ ~regmap_volatile(reg) THEN [c EXCEPT ![reg] = val] ELSE c

regmap_write(s, reg, val, only, busok) ==
    IF ~regmap_writeable(reg) THEN [s EXCEPT !.rc = EIO]
    ELSE IF only
    THEN [s EXCEPT !.cache = CachePut(@, reg, val),
                   !.dirty = TRUE,
                   !.val = val]
    ELSE LET t == [kind |-> "wr", reg |-> reg, val |-> val] IN
         IF busok
         THEN [s EXCEPT !.tx = Append(@, t),
                        !.hw = [@ EXCEPT ![reg] = val],
                        !.cache = CachePut(@, reg, val),
                        !.val = val]
         ELSE [s EXCEPT !.tx = Append(@, t), !.rc = ETRANSPORT]

regmap_read(s, reg, only, busok) ==
    IF ~regmap_readable(reg) THEN [s EXCEPT !.rc = EIO]
    ELSE IF regmap_volatile(reg) \/ reg \notin DOMAIN s.cache
    THEN LET t == [kind |-> "rd", reg |-> reg, val |-> NoValue] IN
         IF busok
         THEN [s EXCEPT !.tx = Append(@, t), !.val = s.hw[reg]]
         ELSE [s EXCEPT !.tx = Append(@, t), !.rc = ETRANSPORT]
    ELSE [s EXCEPT !.val = s.cache[reg]]

regmap_update_bits(s, reg, mask, val, only, busok) ==
    LET r == regmap_read(s, reg, only, busok) IN
    IF r.rc # OK THEN r
    ELSE regmap_write(r, reg, MaskedMerge(r.val, mask, val), only, busok)

RECURSIVE MultiWriteFrom(_, _, _, _, _)
MultiWriteFrom(s, regs, i, only, busok) ==
    IF i > Len(regs) THEN s
    ELSE LET r == regmap_write(s, regs[i][1], regs[i][2], only, busok) IN
         IF r.rc # OK THEN r ELSE MultiWriteFrom(r, regs, i + 1, only, busok)

regmap_multi_reg_write(s, regs, only, busok) == MultiWriteFrom(s, regs, 1, only, busok)

\* Whether regcache_sync writes the cached value of reg to the device.
regcache_reg_needs_sync(reg) ==
    reg \in CachedRegs /\ regmap_writeable(reg) /\ ~regmap_volatile(reg)

\* First register at or after reg that the sync writes, MAX_REG + 1 if none.
NextSyncReg(reg) ==
    LET todo == {r \in reg..MAX_REG : regcache_reg_needs_sync(r)} IN
    IF todo = {} THEN MAX_REG + 1
    ELSE CHOOSE r \in todo : \A q \in todo : r <= q

\* The store variables take the values of s.
Apply(s) ==
    /\ cache' = s.cache
    /\ hw' = s.hw
    /\ tx' = s.tx
    /\ cache_dirty' = s.dirty

\* The record kept of an operation: name, two arguments, result, the register
\* it accessed and the value written or read, and the cache_only flag and
\* power state it ran in.
Op(name, a1, a2, rc, reg, val) ==
    [op |-> name, a1 |-> a1, a2 |-> a2, rc |-> rc, reg |-> reg, val |-> val,
     only |-> cache_only, power |-> PowerState]

----------------------------------------------------------------------------
(* State at entry of probe: priv is zeroed, nothing is enabled.  The level *)
(* of the reset line before the driver requests it depends on the board.   *)

\* No configuration call has run inside a power callback.
NoCall == [op |-> "none", rc |-> OK, tx |-> <<>>, only |-> FALSE,
           power |-> "Unpowered"]

Init ==
    /\ bound = "unbound"
    /\ co = NoCall
    /\ cache = cs5368_reg_defaults
    /\ cache_only = FALSE
    /\ cache_dirty = FALSE
    /\ hw = cs5368_reg_defaults
    /\ supplies = 0
    /\ reset \in BOOLEAN
    /\ mclk_freq = 0
    /\ tdm = FALSE
    /\ rpm = "suspended"
    /\ pc = "idle"
    /\ tx = <<>>
    /\ lastOp = [op |-> "none", a1 |-> NoValue, a2 |-> NoValue, rc |-> OK,
                 reg |-> NoValue, val |-> NoValue, only |-> FALSE,
                 power |-> "Unpowered"]

\* The host serializes its calls: a call starts only when no other is running.
Ready == bound = "bound" /\ pc = "idle"

----------------------------------------------------------------------------
(* cs5368_i2c_probe.  outcome names the first resource that fails, "ok" if *)
(* none does.                                                              *)

ProbeOutcomes == {"ok", "regmap", "regulator", "gpio", "register"}

\* Variant: probe leaves the cache in write-through mode.
probe_cache_only_Off == FALSE

\* Argument of the regcache_cache_only call of probe.
probe_cache_only == TRUE

cs5368_i2c_probe(outcome) ==
    /\ bound = "unbound"
    /\ pc = "idle"
    /\ IF outcome = "regmap"
       THEN /\ bound' = "failed"
            /\ lastOp' = Op("probe", NoValue, NoValue, ERESOURCE, NoValue, NoValue)
            /\ tx' = <<>>
            /\ UNCHANGED <<cache, cache_only, cache_dirty, hw, reset>>
       ELSE LET s == regmap_multi_reg_write(Store, cs5368_reg_init,
                                            probe_cache_only, FALSE)
                gotGpio == s.rc = OK /\ outcome \in {"ok", "register"}
            IN /\ cache_only' = probe_cache_only
               /\ Apply(s)
               /\ reset' = IF gotGpio THEN TRUE ELSE reset
               /\ bound' = IF s.rc = OK /\ outcome = "ok" THEN "bound" ELSE "failed"
               /\ lastOp' = [Op("probe", NoValue, NoValue,
                                  IF s.rc # OK THEN s.rc
                                  ELSE IF outcome = "ok" THEN OK ELSE ERESOURCE,
                                  NoValue, NoValue)
                               EXCEPT !.only = probe_cache_only]
    /\ UNCHANGED <<co, supplies, mclk_freq, tdm, rpm, pc>>

----------------------------------------------------------------------------
(* cs5368_codec_set_sysclk                                                 *)

\* Variant: the direction is not checked.
set_sysclk_rc_AnyDir(dir) == OK

set_sysclk_rc(dir) == IF dir # SND_SOC_CLOCK_IN THEN EINVAL ELSE OK

cs5368_codec_set_sysclk(freq, dir) ==
    /\ Ready
    /\ tx' = <<>>
    /\ LET rc == set_sysclk_rc(dir) IN
       /\ mclk_freq' = IF rc = OK THEN freq ELSE mclk_freq
       /\ lastOp' = Op("set_sysclk", freq, dir, rc, NoValue, NoValue)
    /\ UNCHANGED <<co, bound, cache, cache_only, cache_dirty, hw, supplies, reset,
                   tdm, rpm, pc>>

----------------------------------------------------------------------------
(* cs5368_dai_set_fmt                                                      *)

\* Variant: the clock provider check is missing.
set_fmt_rc_NoClockCheck(fmt) ==
    LET format_mode == FormatOf(fmt)
    IN IF format_mode # SND_SOC_DAIFMT_I2S /\ format_mode # SND_SOC_DAIFMT_DSP_A
       THEN EINVAL
       ELSE OK

set_fmt_rc(fmt) ==
    LET format_mode == FormatOf(fmt)
        clock_mode == ClockOf(fmt)
    IN IF format_mode # SND_SOC_DAIFMT_I2S /\ format_mode # SND_SOC_DAIFMT_DSP_A
       THEN EINVAL
       ELSE IF clock_mode # SND_SOC_DAIFMT_BC_FC THEN EINVAL
       ELSE OK

cs5368_dai_set_fmt(fmt) ==
    /\ Ready
    /\ tx' = <<>>
    /\ lastOp' = Op("set_fmt", fmt, NoValue, set_fmt_rc(fmt), NoValue, NoValue)
    /\ UNCHANGED <<co, bound, cache, cache_only, cache_dirty, hw, supplies, reset,
                   mclk_freq, tdm, rpm, pc>>

----------------------------------------------------------------------------
(* cs5368_dai_set_tdm_slot                                                 *)

\* Variant: the slot width check is missing.
set_tdm_slot_rc_NoWidthCheck(slots, slot_width) ==
    IF slots # 8 /\ slots # 4 /\ slots # 2 THEN EINVAL ELSE OK

set_tdm_slot_rc(slots, slot_width) ==
    IF slots # 8 /\ slots # 4 /\ slots # 2 THEN EINVAL
    ELSE IF slot_width # 32 THEN EINVAL
    ELSE OK

cs5368_dai_set_tdm_slot(tx_mask, rx_mask, slots, slot_width) ==
    /\ Ready
    /\ tx' = <<>>
    /\ LET rc == set_tdm_slot_rc(slots, slot_width) IN
       /\ tdm' = IF rc = OK THEN TRUE ELSE tdm
       /\ lastOp' = Op("set_tdm_slot", slots, slot_width, rc, NoValue, NoValue)
    /\ UNCHANGED <<co, bound, cache, cache_only, cache_dirty, hw, supplies, reset,
                   mclk_freq, rpm, pc>>

----------------------------------------------------------------------------
(* cs5368_dai_hw_params                                                    *)

\* Variant: the first threshold includes 54000.
lrck_speed_Le(rate) ==
    IF rate <= 54000 THEN 256 ELSE IF rate < 108000 THEN 128 ELSE 64

lrck_speed(rate) ==
    IF rate < 54000 THEN 256 ELSE IF rate < 108000 THEN 128 ELSE 64

\* priv->mclk_freq / rate / lrck_speed, two truncating divisions
mclk_div(mclk, rate) == (mclk \div rate) \div lrck_speed(rate)

\* Variant: a divider of 2 is given the code 2.
mdiv_Two(div) ==
    IF div = 4 THEN 3
    ELSE IF div = 2 THEN 2
    ELSE IF div = 1 THEN 0
    ELSE NoValue

\* Variant: an unsupported divider falls through to code 0.
mdiv_Default(div) ==
    IF div = 4 THEN 3
    ELSE IF div = 2 THEN 1
    ELSE 0

\* The divider code, NoValue when the divider is not supported (-EINVAL).
mdiv(div) ==
    IF div = 4 THEN 3
    ELSE IF div = 2 THEN 1
    ELSE IF div = 1 THEN 0
    ELSE NoValue

\* Variant: the divider code is written with a plain register write.
cs5368_dai_hw_params_PlainWrite(rate, busok) ==
    /\ Ready
    /\ LET code == mdiv(mclk_div(mclk_freq, rate)) IN
       IF code = NoValue
       THEN /\ lastOp' = Op("hw_params", rate, mclk_freq, EINVAL, NoValue, NoValue)
            /\ tx' = <<>>
            /\ UNCHANGED <<cache, hw, cache_dirty>>
       ELSE LET s == regmap_write(Store, REG_GCTL, code * 16, cache_only, busok)
            IN /\ Apply(s)
               /\ lastOp' = Op("hw_params", rate, mclk_freq, s.rc, REG_GCTL,
                               IF s.rc = OK THEN s.val ELSE NoValue)
    /\ UNCHANGED <<co, bound, cache_only, supplies, reset, mclk_freq, tdm, rpm, pc>>

cs5368_dai_hw_params(rate, busok) ==
    /\ Ready
    /\ LET code == mdiv(mclk_div(mclk_freq, rate)) IN
       IF code = NoValue
       THEN /\ lastOp' = Op("hw_params", rate, mclk_freq, EINVAL, NoValue, NoValue)
            /\ tx' = <<>>
            /\ UNCHANGED <<cache, hw, cache_dirty>>
       ELSE LET s == regmap_update_bits(Store, REG_GCTL, REG_GCTL_MDIV_MASK,
                                        code * 16, cache_only, busok)
            IN /\ Apply(s)
               /\ lastOp' = Op("hw_params", rate, mclk_freq, s.rc, REG_GCTL,
                               IF s.rc = OK THEN s.val ELSE NoValue)
    /\ UNCHANGED <<co, bound, cache_only, supplies, reset, mclk_freq, tdm, rpm, pc>>

----------------------------------------------------------------------------
(* Control surface: a switch of the control table is set to value (0/1).   *)
(* The switches are inverted: the register bit is max - value.             *)

control_put(i, value, busok) ==
    /\ Ready
    /\ LET reg == Controls[i][1]
           shift == Controls[i][2]
           s == regmap_update_bits(Store, reg, Pow2(shift), (1 - value) * Pow2(shift),
                                   cache_only, busok)
       IN /\ Apply(s)
          /\ lastOp' = Op("control_put", i, value, s.rc, reg,
                          IF s.rc = OK THEN s.val ELSE NoValue)
    /\ UNCHANGED <<co, bound, cache_only, supplies, reset, mclk_freq, tdm, rpm, pc>>

----------------------------------------------------------------------------
(* Direct use of the Register Store by address: a read of any address, and *)
(* a write of an address that is reserved, read-only or volatile on the    *)
(* device (the other registers are written through the operations above    *)
(* only).                                                                  *)

ReservedRegs == {REG_RSVD1, REG_RSVD2, REG_RSVD3}
ReadOnlyRegs == {REG_REVI}
StatusRegs == {REG_OVFL}
WriteValues == {90}

store_read(reg, busok) ==
    /\ Ready
    /\ LET s == regmap_read(Store, reg, cache_only, busok) IN
       /\ Apply(s)
       /\ lastOp' = Op("regmap_read", NoValue, NoValue, s.rc, reg, s.val)
    /\ UNCHANGED <<co, bound, cache_only, supplies, reset, mclk_freq, tdm, rpm, pc>>

store_write(reg, val, busok) ==
    /\ Ready
    /\ LET s == regmap_write(Store, reg, val, cache_only, busok) IN
       /\ Apply(s)
       /\ lastOp' = Op("regmap_write", NoValue, NoValue, s.rc, reg, val)
    /\ UNCHANGED <<co, bound, cache_only, supplies, reset, mclk_freq, tdm, rpm, pc>>

----------------------------------------------------------------------------
(* cs5368_pm_runtime_suspend, one action per statement.  The PM core calls *)
(* it only for a device whose runtime-PM status is active.                 *)

\* Variant: suspend leaves the cache in write-through mode.
suspend_cache_only_Off == FALSE

\* Argument of the regcache_cache_only call of suspend.
suspend_cache_only == TRUE

suspend_set_cache_only ==
    /\ Ready
    /\ rpm = "active"
    /\ cache_only' = suspend_cache_only
    /\ pc' = "s_gpio"
    /\ tx' = <<>>
    /\ lastOp' = Op("suspend", NoValue, NoValue, PENDING, NoValue, NoValue)
    /\ UNCHANGED <<co, bound, cache, cache_dirty, hw, supplies, reset, mclk_freq,
                   tdm, rpm>>

\* gpiod_set_value_cansleep(reset, 1): the device falls back to its defaults.
suspend_assert_reset ==
    /\ pc = "s_gpio"
    /\ reset' = TRUE
    /\ hw' = cs5368_reg_defaults
    /\ pc' = "s_disable"
    /\ UNCHANGED <<co, bound, cache, cache_only, cache_dirty, supplies, mclk_freq,
                   tdm, rpm, tx, lastOp>>

\* regulator_bulk_disable: on failure the supplies stay enabled.
suspend_disable(ok) ==
    /\ pc = "s_disable"
    /\ pc' = "idle"
    /\ IF ok
       THEN /\ supplies' = supplies - 1
            /\ rpm' = "suspended"
            /\ lastOp' = [lastOp EXCEPT !.rc = OK]
       ELSE /\ lastOp' = [lastOp EXCEPT !.rc = ERESOURCE]
            /\ UNCHANGED <<supplies, rpm>>
    /\ UNCHANGED <<co, bound, cache, cache_only, cache_dirty, hw, reset, mclk_freq,
                   tdm, tx>>

cs5368_pm_runtime_suspend ==
    \/ suspend_set_cache_only
    \/ suspend_assert_reset
    \/ \E ok \in BOOLEAN : suspend_disable(ok)

----------------------------------------------------------------------------
(* cs5368_pm_runtime_resume, one action per statement and one per register *)
(* written by regcache_sync.  The PM core calls it only for a device whose *)
(* runtime-PM status is suspended; a failed resume leaves that status.     *)

\* Kept as a1 of a resume record: 1 when the operation before was a suspend
\* that returned 0, and 0 otherwise.
AfterSuspend == IF lastOp.op = "suspend" /\ lastOp.rc = OK THEN 1 ELSE 0

\* Variant: the cache leaves cache_only mode before the supplies are enabled.
resume_enable_ClearsFirst(ok) ==
    /\ Ready
    /\ rpm = "suspended"
    /\ supplies < MaxEnable
    /\ tx' = <<>>
    /\ cache_only' = FALSE
    /\ IF ok
       THEN /\ supplies' = supplies + 1
            /\ hw' = IF supplies = 0 THEN cs5368_reg_defaults ELSE hw
            /\ pc' = "r_gpio"
            /\ lastOp' = Op("resume", AfterSuspend, NoValue, PENDING, NoValue, NoValue)
       ELSE /\ lastOp' = Op("resume", AfterSuspend, NoValue, ERESOURCE, NoValue, NoValue)
            /\ UNCHANGED <<supplies, hw, pc>>
    /\ UNCHANGED <<co, bound, cache, cache_dirty, reset, mclk_freq, tdm, rpm>>

\* Variant: the result of regulator_bulk_enable is ignored.
resume_enable_Unchecked(ok) ==
    /\ Ready
    /\ rpm = "suspended"
    /\ supplies < MaxEnable
    /\ tx' = <<>>
    /\ supplies' = IF ok THEN supplies + 1 ELSE supplies
    /\ hw' = IF ok /\ supplies = 0 THEN cs5368_reg_defaults ELSE hw
    /\ pc' = "r_gpio"
    /\ lastOp' = Op("resume", AfterSuspend, NoValue, PENDING, NoValue, NoValue)
    /\ UNCHANGED <<co, bound, cache, cache_only, cache_dirty, reset, mclk_freq,
                   tdm, rpm>>

\* regulator_bulk_enable: on failure the supplies already enabled are
\* disabled again.  Supplies that come up from off start from the defaults.
resume_enable(ok) ==
    /\ Ready
    /\ rpm = "suspended"
    /\ supplies < MaxEnable
    /\ tx' = <<>>
    /\ IF ok
       THEN /\ supplies' = supplies + 1
            /\ hw' = IF supplies = 0 THEN cs5368_reg_defaults ELSE hw
            /\ pc' = "r_gpio"
            /\ lastOp' = Op("resume", AfterSuspend, NoValue, PENDING, NoValue, NoValue)
       ELSE /\ lastOp' = Op("resume", AfterSuspend, NoValue, ERESOURCE, NoValue, NoValue)
            /\ UNCHANGED <<supplies, hw, pc>>
    /\ UNCHANGED <<co, bound, cache, cache_only, cache_dirty, reset, mclk_freq, tdm,
                   rpm>>

\* gpiod_set_value_cansleep(reset, 0)
resume_deassert_reset ==
    /\ pc = "r_gpio"
    /\ reset' = FALSE
    /\ pc' = "r_cache_only"
    /\ UNCHANGED <<co, bound, cache, cache_only, cache_dirty, hw, supplies,
                   mclk_freq, tdm, rpm, tx, lastOp>>

\* regcache_cache_only(regmap, false)
resume_clear_cache_only ==
    /\ pc = "r_cache_only"
    /\ cache_only' = FALSE
    /\ pc' = "r_dirty"
    /\ UNCHANGED <<co, bound, cache, cache_dirty, hw, supplies, reset, mclk_freq,
                   tdm, rpm, tx, lastOp>>

\* Variant: resume applies the init sequence to the cache again before
\* the sync.
resume_mark_dirty_Reinit ==
    /\ pc = "r_dirty"
    /\ cache_dirty' = TRUE
    /\ cache' = regmap_multi_reg_write(Store, cs5368_reg_init, TRUE, FALSE).cache
    /\ pc' = "r_sync"
    /\ UNCHANGED <<co, bound, cache_only, hw, supplies, reset, mclk_freq,
                   tdm, rpm, tx, lastOp>>

\* regcache_mark_dirty
resume_mark_dirty ==
    /\ pc = "r_dirty"
    /\ cache_dirty' = TRUE
    /\ pc' = "r_sync"
    /\ UNCHANGED <<co, bound, cache, cache_only, hw, supplies, reset, mclk_freq,
                   tdm, rpm, tx, lastOp>>

\* Variant: a failed write is recorded and the sync carries on with the next
\* register.
resume_sync_Continue(busok) ==
    /\ pc = "r_sync"
    /\ LET reg == NextSyncReg(IF tx = <<>> THEN 0 ELSE tx[Len(tx)].reg + 1) IN
       IF reg > MAX_REG
       THEN /\ cache_dirty' = FALSE
            /\ rpm' = "active"
            /\ pc' = "idle"
            /\ UNCHANGED <<hw, tx, lastOp>>
       ELSE /\ tx' = Append(tx, [kind |-> "wr", reg |-> reg, val |-> cache[reg]])
            /\ IF busok
               THEN /\ hw' = [hw EXCEPT ![reg] = cache[reg]]
                    /\ UNCHANGED lastOp
               ELSE /\ lastOp' = [lastOp EXCEPT !.rc = ETRANSPORT]
                    /\ UNCHANGED hw
            /\ UNCHANGED <<cache_dirty, rpm, pc>>
    /\ UNCHANGED <<co, bound, cache, cache_only, supplies, reset, mclk_freq, tdm>>

\* Where the running sync stands: just after the last register it wrote.
SyncPos == IF tx = <<>> THEN 0 ELSE tx[Len(tx)].reg + 1

\* regcache_sync: the next register is written straight to the device; the
\* first failed write ends the callback; when none is left the cache is clean
\* and the callback returns 0.
resume_sync(busok) ==
    /\ pc = "r_sync"
    /\ LET reg == NextSyncReg(SyncPos) IN
       IF reg > MAX_REG
       THEN /\ cache_dirty' = FALSE
            /\ rpm' = "active"
            /\ pc' = "idle"
            /\ lastOp' = [lastOp EXCEPT !.rc = OK]
            /\ UNCHANGED <<hw, tx>>
       ELSE /\ tx' = Append(tx, [kind |-> "wr", reg |-> reg, val |-> cache[reg]])
            /\ IF busok
               THEN /\ hw' = [hw EXCEPT ![reg] = cache[reg]]
                    /\ UNCHANGED <<pc, lastOp>>
               ELSE /\ pc' = "idle"
                    /\ lastOp' = [lastOp EXCEPT !.rc = ETRANSPORT]
                    /\ UNCHANGED hw
            /\ UNCHANGED <<cache_dirty, rpm>>
    /\ UNCHANGED <<co, bound, cache, cache_only, supplies, reset, mclk_freq, tdm>>

cs5368_pm_runtime_resume ==
    \/ \E ok \in BOOLEAN : resume_enable(ok)
    \/ resume_deassert_reset
    \/ resume_clear_cache_only
    \/ resume_mark_dirty
    \/ \E busok \in BusOutcomes : resume_sync(busok)

----------------------------------------------------------------------------

(* Environments that drive the driver.  In each of the three below the    *)
(* host first probes the device and the PM core suspends and resumes it;   *)
(* NextInterleaved and NextDivider follow further down.                    *)
(*   Next:       clocking and the control surface.                         *)
(*   NextFormat: format and TDM negotiation next to the control surface.   *)
(*   NextStore:  direct register access next to one clock configuration    *)
(*               and the control surface.                                  *)

PowerAndProbe ==
    \/ \E outcome \in ProbeOutcomes : cs5368_i2c_probe(outcome)
    \/ cs5368_pm_runtime_suspend
    \/ cs5368_pm_runtime_resume

Next ==
    \/ PowerAndProbe
    \/ \E freq \in Mclks, dir \in ClockDirs : cs5368_codec_set_sysclk(freq, dir)
    \/ \E rate \in Rates, busok \in BusOutcomes : cs5368_dai_hw_params(rate, busok)
    \/ \E i \in ControlIdx, v \in {0, 1}, busok \in BusOutcomes : control_put(i, v, busok)

Spec == Init /\ [][Next]_vars

NextFormat ==
    \/ PowerAndProbe
    \/ \E fmt \in Fmts : cs5368_dai_set_fmt(fmt)
    \/ \E m \in SlotMasks, n \in SlotCounts, w \in SlotWidths :
          cs5368_dai_set_tdm_slot(m[1], m[2], n, w)
    \/ \E freq \in FormatMclks : cs5368_codec_set_sysclk(freq, SND_SOC_CLOCK_IN)
    \/ \E i \in ControlIdx, v \in {0, 1}, busok \in BusOutcomes : control_put(i, v, busok)

SpecFormat == Init /\ [][NextFormat]_vars

\* The rate configured in the register-access environment.
StoreRates == {48000}

NextStore ==
    \/ PowerAndProbe
    \/ \E freq \in FormatMclks : cs5368_codec_set_sysclk(freq, SND_SOC_CLOCK_IN)
    \/ \E rate \in StoreRates, busok \in BusOutcomes : cs5368_dai_hw_params(rate, busok)
    \/ \E i \in ControlIdx, v \in {0, 1}, busok \in BusOutcomes : control_put(i, v, busok)
    \/ \E reg \in AllRegs, busok \in BusOutcomes : store_read(reg, busok)
    \/ \E reg \in ReservedRegs \cup ReadOnlyRegs \cup StatusRegs, val \in WriteValues,
          busok \in BusOutcomes : store_write(reg, val, busok)

SpecStore == Init /\ [][NextStore]_vars

----------------------------------------------------------------------------
(* Control toggles that arrive while a power callback is in progress,      *)
(* between two of its statements (a stream holds the device resumed, so    *)
(* hw_params does not meet a callback; a control write holds nothing).     *)
(* The register cache serializes its own operations, so such a call runs   *)
(* before or after a statement of the callback and before or after the     *)
(* whole of regcache_sync, never inside.  Its record and its bus           *)
(* transactions are kept in co.                                            *)

BetweenSteps == bound = "bound" /\ pc # "idle" /\ ~(pc = "r_sync" /\ tx # <<>>)

CallRecord(name, s) ==
    [op |-> name, rc |-> s.rc, tx |-> s.tx, only |-> cache_only,
     power |-> PowerState]

control_put_between(i, value, busok) ==
    /\ BetweenSteps
    /\ LET reg == Controls[i][1]
           shift == Controls[i][2]
           s == regmap_update_bits(Store, reg, Pow2(shift), (1 - value) * Pow2(shift),
                                   cache_only, busok)
       IN /\ cache' = s.cache
          /\ hw' = s.hw
          /\ cache_dirty' = s.dirty
          /\ co' = CallRecord("control_put", s)
    /\ UNCHANGED <<bound, cache_only, supplies, reset, mclk_freq, tdm, rpm, pc,
                   tx, lastOp>>

NextInterleaved ==
    \/ PowerAndProbe
    \/ \E freq \in FormatMclks : cs5368_codec_set_sysclk(freq, SND_SOC_CLOCK_IN)
    \/ \E rate \in StoreRates, busok \in BusOutcomes : cs5368_dai_hw_params(rate, busok)
    \/ \E i \in ControlIdx, v \in {0, 1}, busok \in BusOutcomes : control_put(i, v, busok)
    \/ \E i \in ControlIdx, v \in {0, 1}, busok \in BusOutcomes :
          control_put_between(i, v, busok)

SpecInterleaved == Init /\ [][NextInterleaved]_vars

----------------------------------------------------------------------------
(* The divider environment: the device has been probed and a master clock  *)
(* latched by set_sysclk; hw_params is then called for rates of the range  *)
(* the DAI declares (2000..216000), the thresholds and their neighbours    *)
(* among them.  The clocks are the multiples of rate * ratio up to MaxDiv, *)
(* each with the values just below and above it, and 0.                    *)

DividerRates == {2000, 32000, 44100, 48000, 53999, 54000, 96000, 107999,
                 108000, 192000, 216000}

DividerMclks ==
    {0} \cup {(d * r * k) + e : d \in 1..MaxDiv, r \in DividerRates,
                                k \in {64, 128, 256}, e \in {0 - 1, 0, 1}}

\* The shadow after probe: the defaults overlaid with the init sequence.
ProbedCache ==
    MultiWriteFrom([cache |-> cs5368_reg_defaults, hw |-> cs5368_reg_defaults,
                    tx |-> <<>>, dirty |-> FALSE, rc |-> OK, val |-> NoValue],
                   cs5368_reg_init, 1, probe_cache_only, FALSE).cache

InitDivider ==
    /\ bound = "bound"
    /\ co = NoCall
    /\ cache = ProbedCache
    /\ cache_only = probe_cache_only
    /\ cache_dirty = TRUE
    /\ hw = cs5368_reg_defaults
    /\ supplies = 0
    /\ reset = TRUE
    /\ mclk_freq \in DividerMclks
    /\ tdm = FALSE
    /\ rpm = "suspended"
    /\ pc = "idle"
    /\ tx = <<>>
    /\ lastOp = [op |-> "set_sysclk", a1 |-> mclk_freq, a2 |-> SND_SOC_CLOCK_IN,
                 rc |-> OK, reg |-> NoValue, val |-> NoValue,
                 only |-> probe_cache_only, power |-> "Unpowered"]

NextDivider ==
    \E rate \in DividerRates : cs5368_dai_hw_params(rate, FALSE)

SpecDivider == InitDivider /\ [][NextDivider]_vars

----------------------------------------------------------------------------
(* Properties                                                              *)

\* What a read of reg returns in the current state (bus unavailable).
ReadOf(reg) == regmap_read(Store, reg, cache_only, FALSE)

\* The operations that issue a register write.
WriteOps == {"hw_params", "control_put"}

\* cache_only is set, or the device is unpowered or held in reset.
Bypassed == cache_only \/ PowerState \in {"Unpowered", "Resetting"}

InitRegs == {cs5368_reg_init[i][1] : i \in DOMAIN cs5368_reg_init}

\* C1: a register write issued while the cache is bypassed (device Unpowered
\* or Resetting) - the init sequence of probe, the masked write of hw_params,
\* a control toggle - sends nothing to the bus and leaves the device
\* registers alone, and a read of that address returns the written value
\* until the next write to it: the read that follows at once does, a cached
\* value changes only by a write to its address, and a read of a cached
\* register returns the cached value without a bus transaction.
C1_BypassedWriteStep ==
    /\ (Bypassed /\ lastOp'.op \in WriteOps /\ lastOp'.reg # NoValue)
         => /\ tx' = <<>>
            /\ hw' = hw
            /\ lastOp'.rc = OK
            /\ ReadOf(lastOp.reg)'.rc = OK
            /\ ReadOf(lastOp.reg)'.val = lastOp'.val
            /\ ReadOf(lastOp.reg)'.tx = <<>>
    /\ (Bypassed /\ lastOp'.op = "probe")
         => /\ tx' = <<>>
            /\ hw' = hw
            /\ lastOp'.rc # ETRANSPORT
            /\ lastOp'.rc = OK =>
                 \A i \in DOMAIN cs5368_reg_init :
                    ReadOf(cs5368_reg_init[i][1])'.val = cs5368_reg_init[i][2]
    /\ \A r \in CachedRegs :
          cache'[r] # cache[r] =>
             \/ lastOp'.op \in WriteOps /\ lastOp'.reg = r
             \/ lastOp'.op = "probe" /\ r \in InitRegs
    /\ (lastOp'.op = "regmap_read" /\ lastOp'.reg \in CachedRegs
          /\ ~regmap_volatile(lastOp'.reg))
         => /\ lastOp'.rc = OK
            /\ lastOp'.val = cache[lastOp'.reg]
            /\ tx' = <<>>

C1_BypassedWrite == [][C1_BypassedWriteStep]_vars

\* A control toggle made in cache_only mode changed the shadow and not the
\* device, and a read returns it.
C1_Witness ==
    /\ lastOp.op = "control_put"
    /\ lastOp.only
    /\ lastOp.rc = OK
    /\ tx = <<>>
    /\ ReadOf(REG_HPF).val = lastOp.val
    /\ hw[REG_HPF] # lastOp.val

\* C2: no step of suspend and no step of resume changes a cached value, so
\* after a suspend and a successful resume every cached register holds the
\* value it had before the suspend.
C2_PowerKeepsShadow ==
    [][lastOp'.op \in {"suspend", "resume"} => cache' = cache]_vars

\* A resume that directly followed a suspend returned 0 with a shadow that
\* carries configuration on top of the init sequence.
C2_Witness ==
    /\ lastOp.op = "resume"
    /\ lastOp.rc = OK
    /\ lastOp.a1 = 1
    /\ cache[REG_GCTL] # 139
    /\ cache[REG_HPF] # 0

\* C3: when resume returns 0 the device holds the cached value of every
\* writable, non-volatile register; in particular it holds the init sequence
\* (global control 0x8B apart from the divider bits, overflow mask 0x00,
\* pin-enable select 0x0A) with the configuration made while unpowered.
C3_ResumeSyncsHardware ==
    (lastOp.op = "resume" /\ lastOp.rc = OK) =>
        /\ \A r \in CachedRegs :
              (regmap_writeable(r) /\ ~regmap_volatile(r)) => hw[r] = cache[r]
        /\ MaskedMerge(hw[REG_GCTL], REG_GCTL_MDIV_MASK, 0) = 139
        /\ hw[REG_OVFM] = 0
        /\ hw[REG_SDEN] = 10

\* A resume returned 0 and the device holds a divider code and a filter
\* switch that were configured before it.
C3_Witness ==
    /\ lastOp.op = "resume"
    /\ lastOp.rc = OK
    /\ hw[REG_GCTL] = 155
    /\ hw[REG_HPF] = 1
    /\ hw[REG_SDEN] = 10

\* C4: a read or a write of a reserved address (0x05, 0x07, 0x09) is refused
\* in every power state, with no bus transaction and no change of the shadow
\* or of the device.
C4_ReservedRefused ==
    [][(lastOp'.op \in {"regmap_read", "regmap_write"}
          /\ lastOp'.reg \in {5, 7, 9})
         => /\ lastOp'.rc = EIO
            /\ tx' = <<>>
            /\ cache' = cache
            /\ hw' = hw]_vars

\* A read of a reserved address was refused while the device was active and
\* the cache in write-through mode.
C4_Witness ==
    /\ lastOp.op = "regmap_read"
    /\ lastOp.reg = 5
    /\ lastOp.rc = EIO
    /\ lastOp.power = "Active"
    /\ ~lastOp.only

\* C5: no write transaction addresses 0x00, 0x05, 0x07 or 0x09 and no read
\* transaction addresses 0x05, 0x07 or 0x09.
C5_NoRefusedAddressOnBus ==
    \A i \in DOMAIN tx :
       /\ tx[i].kind = "wr" => tx[i].reg \notin {0, 5, 7, 9}
       /\ tx[i].kind = "rd" => tx[i].reg \notin {5, 7, 9}

\* A resume has synced the whole cache to the device.
C5_Witness ==
    /\ lastOp.op = "resume"
    /\ lastOp.rc = OK
    /\ Len(tx) >= 6

\* The divider code held in bits 4-5 of a global-control value.
CodeOf(val) == (val \div 16) % 4

\* raw_div = master_clock_hz / (sample_rate_hz * oversample_ratio), truncated.
RawDiv(mclk, rate) ==
    mclk \div (rate * (IF rate < 54000 THEN 256 ELSE IF rate < 108000 THEN 128 ELSE 64))

C6_Ratios ==
    (32000 :> 256) @@ (44100 :> 256) @@ (48000 :> 256) @@ (96000 :> 128) @@
    (192000 :> 64)

C6_ClaimedCodes ==
    (32000 :> 0) @@ (44100 :> 0) @@ (48000 :> 0) @@ (96000 :> 1) @@ (192000 :> 3)

\* C6 as stated: with a master clock of 24576000 Hz, hw_params for the rates
\* 32000, 44100, 48000, 96000, 192000 selects the ratios 256, 256, 256, 128,
\* 64 and yields the divider codes 0, 0, 0, 1, 3.
C6_Original ==
    (lastOp.op = "hw_params" /\ lastOp.a2 = 24576000 /\ lastOp.a1 \in DOMAIN C6_Ratios)
      => /\ lrck_speed(lastOp.a1) = C6_Ratios[lastOp.a1]
         /\ lastOp.rc # EINVAL
         /\ lastOp.rc = OK => CodeOf(lastOp.val) = C6_ClaimedCodes[lastOp.a1]

\* C6 amended: with a master clock of 24576000 Hz the ratios are 256, 256,
\* 256, 128, 64; the rate 32000 (divider 3) is refused with -EINVAL and no
\* register write; 44100, 48000, 96000 and 192000 (divider 2) yield code 1.
C6_DividerAt24576000 ==
    (lastOp.op = "hw_params" /\ lastOp.a2 = 24576000 /\ lastOp.a1 \in DOMAIN C6_Ratios)
      => /\ lrck_speed(lastOp.a1) = C6_Ratios[lastOp.a1]
         /\ lastOp.a1 = 32000 => (lastOp.rc = EINVAL /\ tx = <<>>)
         /\ lastOp.a1 # 32000 =>
               /\ lastOp.rc # EINVAL
               /\ lastOp.rc = OK => CodeOf(lastOp.val) = 1

\* hw_params for 192000 Hz at 24576000 Hz wrote code 1 to the device.
C6_Witness ==
    /\ lastOp.op = "hw_params"
    /\ lastOp.a2 = 24576000
    /\ lastOp.a1 = 192000
    /\ lastOp.rc = OK
    /\ lastOp.val = 155
    /\ hw[REG_GCTL] = 155

\* C7: hw_params with a master clock (0 included) and rate whose raw_div is
\* not 1, 2 or 4 returns an error and writes no register: no bus transaction,
\* shadow and device registers unchanged.
C7_BadRatioNoWrite ==
    [][(lastOp'.op = "hw_params" /\ RawDiv(mclk_freq, lastOp'.a1) \notin {1, 2, 4})
         => /\ lastOp'.rc = EINVAL
            /\ tx' = <<>>
            /\ cache' = cache
            /\ hw' = hw
            /\ cache_dirty' = cache_dirty]_vars

\* hw_params was refused for a latched clock (raw_div = 3) while the device
\* was active.
C7_Witness ==
    /\ lastOp.op = "hw_params"
    /\ lastOp.a2 = 24576000
    /\ lastOp.a1 = 32000
    /\ lastOp.rc = EINVAL
    /\ lastOp.power = "Active"
    /\ ~lastOp.only

\* C8: set_tdm_slot succeeds exactly when slots is 2, 4 or 8 and slot_width
\* is 32; on success tdm becomes true; on rejection it returns -EINVAL and
\* leaves tdm as it was; in neither case is a register written.
C8_TdmSlot ==
    [][lastOp'.op = "set_tdm_slot"
         => /\ lastOp'.rc = OK <=> (lastOp'.a1 \in {2, 4, 8} /\ lastOp'.a2 = 32)
            /\ lastOp'.rc \in {OK, EINVAL}
            /\ lastOp'.rc = OK => tdm'
            /\ lastOp'.rc = EINVAL => tdm' = tdm
            /\ tx' = <<>>
            /\ cache' = cache
            /\ hw' = hw]_vars

\* A request with 16-bit slots was refused and tdm stayed false.
C8_Witness ==
    /\ lastOp.op = "set_tdm_slot"
    /\ lastOp.a1 = 8
    /\ lastOp.a2 = 16
    /\ lastOp.rc = EINVAL
    /\ ~tdm

\* C9: set_fmt succeeds exactly when the format is I2S or DSP_A and the clock
\* role is consumer (BC_FC), returns -EINVAL otherwise, and changes nothing:
\* shadow, cache_only, mclk_freq, tdm and the device registers stay.
C9_SetFmt ==
    [][lastOp'.op = "set_fmt"
         => /\ lastOp'.rc = OK <=>
                 /\ lastOp'.a1 % 16 \in {SND_SOC_DAIFMT_I2S, SND_SOC_DAIFMT_DSP_A}
                 /\ lastOp'.a1 \div 4096 = 4
            /\ lastOp'.rc \in {OK, EINVAL}
            /\ tx' = <<>>
            /\ UNCHANGED <<cache, cache_only, cache_dirty, mclk_freq, tdm, hw,
                           supplies, reset>>]_vars

\* set_fmt(I2S, provider) was refused.
C9_Witness ==
    /\ lastOp.op = "set_fmt"
    /\ lastOp.a1 = SND_SOC_DAIFMT_I2S + SND_SOC_DAIFMT_BP_FP
    /\ lastOp.rc = EINVAL

\* C10: set_sysclk with a direction other than input returns -EINVAL and
\* leaves mclk_freq; with direction input it latches freq; mclk_freq changes
\* in no other way and is the clock hw_params divides; set_sysclk writes no
\* register.
C10_SetSysclk ==
    [][/\ lastOp'.op = "set_sysclk"
            => /\ lastOp'.a2 # SND_SOC_CLOCK_IN =>
                    (lastOp'.rc = EINVAL /\ mclk_freq' = mclk_freq)
               /\ lastOp'.a2 = SND_SOC_CLOCK_IN =>
                    (lastOp'.rc = OK /\ mclk_freq' = lastOp'.a1)
               /\ tx' = <<>>
               /\ cache' = cache
               /\ hw' = hw
       /\ mclk_freq' # mclk_freq => (lastOp'.op = "set_sysclk" /\ lastOp'.rc = OK)
       /\ lastOp'.op = "hw_params"
            => /\ lastOp'.a2 = mclk_freq
               /\ lastOp'.rc = EINVAL <=>
                    RawDiv(mclk_freq, lastOp'.a1) \notin {1, 2, 4}]_vars

\* A request with direction output was refused and the clock latched before
\* is still in place.
C10_Witness ==
    /\ lastOp.op = "set_sysclk"
    /\ lastOp.a1 = 49152000
    /\ lastOp.a2 = SND_SOC_CLOCK_OUT
    /\ lastOp.rc = EINVAL
    /\ mclk_freq = 24576000

\* C11: suspend performs its steps in this order: cache_only is set first,
\* then the reset line is asserted, then the supplies are disabled; the step
\* that asserts the reset line and the step that disables the supplies are
\* taken with cache_only already set, the latter with the reset line asserted.
C11_PowerDownOrder ==
    [][lastOp'.op = "suspend" =>
         /\ pc = "idle" => /\ pc' = "s_gpio"
                           /\ cache_only'
                           /\ reset' = reset
                           /\ supplies' = supplies
         /\ pc = "s_gpio" => /\ pc' = "s_disable"
                             /\ cache_only /\ cache_only'
                             /\ reset'
                             /\ supplies' = supplies
         /\ pc = "s_disable" => /\ pc' = "idle"
                                /\ cache_only /\ cache_only'
                                /\ reset /\ reset'
                                /\ supplies' <= supplies
         /\ (reset' # reset) => (pc = "s_gpio" /\ cache_only)
         /\ (supplies' # supplies) => (pc = "s_disable" /\ cache_only /\ reset)]_vars

\* A suspend of the active device returned 0: supplies off, reset asserted,
\* cache_only set.
C11_Witness ==
    /\ lastOp.op = "suspend"
    /\ lastOp.rc = OK
    /\ lastOp.power = "Active"
    /\ pc = "idle"
    /\ supplies = 0
    /\ reset
    /\ cache_only

\* C12: resume performs its steps in this order: enable the supplies,
\* deassert the reset line, clear cache_only, mark the cache dirty, sync; when
\* enabling the supplies fails it returns an error at once and has changed
\* neither the reset line nor cache_only nor the shadow nor the supplies, and
\* has issued no bus transaction.
C12_PowerUpOrder ==
    [][lastOp'.op = "resume" =>
         /\ pc = "idle" =>
               /\ lastOp'.rc \in {ERESOURCE, PENDING}
               /\ tx' = <<>>
               /\ UNCHANGED <<reset, cache_only, cache, cache_dirty>>
               /\ lastOp'.rc = ERESOURCE =>
                     (pc' = "idle" /\ UNCHANGED <<supplies, hw>>)
               /\ lastOp'.rc = PENDING =>
                     (pc' = "r_gpio" /\ supplies' = supplies + 1)
         /\ pc = "r_gpio" => /\ pc' = "r_cache_only"
                             /\ supplies > 0
                             /\ ~reset'
                             /\ UNCHANGED <<supplies, cache_only, cache, cache_dirty, tx>>
         /\ pc = "r_cache_only" => /\ pc' = "r_dirty"
                                   /\ supplies > 0 /\ ~reset
                                   /\ ~cache_only'
                                   /\ UNCHANGED <<supplies, reset, cache, cache_dirty, tx>>
         /\ pc = "r_dirty" => /\ pc' = "r_sync"
                              /\ supplies > 0 /\ ~reset /\ ~cache_only
                              /\ cache_dirty'
                              /\ UNCHANGED <<supplies, reset, cache_only, cache, tx>>
         /\ pc = "r_sync" => /\ supplies > 0 /\ ~reset /\ ~cache_only
                             /\ tx' # tx => cache_dirty
                             /\ UNCHANGED <<supplies, reset, cache_only, cache>>
         /\ tx' # <<>> => pc = "r_sync"]_vars

\* Enabling the supplies failed for a suspended device that carries
\* configuration: the reset line is still asserted, cache_only still set, the
\* shadow in place and nothing was sent.
C12_Witness ==
    /\ lastOp.op = "resume"
    /\ lastOp.rc = ERESOURCE
    /\ pc = "idle"
    /\ reset
    /\ cache_only
    /\ supplies = 0
    /\ tx = <<>>
    /\ cache[REG_HPF] # 0

\* C13: a read of the volatile overflow-status register (0x02) is served by
\* one bus read whether cache_only is set or not, and returns what the device
\* holds or the bus error, never the cached default; no step changes the
\* shadow entry of that register, and the sync of resume never writes it.
C13_VolatileRead ==
    [][/\ (lastOp'.op = "regmap_read" /\ lastOp'.reg = 2) =>
             /\ tx' = <<[kind |-> "rd", reg |-> 2, val |-> NoValue]>>
             /\ lastOp'.rc \in {OK, ETRANSPORT}
             /\ lastOp'.rc = OK => lastOp'.val = hw[2]
             /\ lastOp'.rc = ETRANSPORT => lastOp'.val = NoValue
             /\ UNCHANGED <<cache, hw>>
       /\ (2 \in DOMAIN cache) => (2 \in DOMAIN cache' /\ cache'[2] = cache[2])
       /\ lastOp'.op = "resume" =>
             \A i \in DOMAIN tx' : tx'[i].reg # 2]_vars

\* A read of the register made in cache_only mode, with the device powered
\* down, went to the bus: one read transaction was issued and its failure
\* was returned, not the cached default.
C13_Witness ==
    /\ lastOp.op = "regmap_read"
    /\ lastOp.reg = REG_OVFL
    /\ lastOp.only
    /\ lastOp.rc = ETRANSPORT
    /\ Len(tx) = 1
    /\ cache[REG_OVFL] = 255

\* The addresses of the write transactions issued, in the order of issue.
TxRegs == [i \in DOMAIN tx |-> tx[i].reg]

\* C14 as stated: the sync of a resume that returns 0 writes every shadow
\* address that is neither reserved nor volatile - 0x00, 0x01, 0x03, 0x04,
\* 0x06, 0x08, 0x0A - each once, in ascending order.
C14_Original ==
    (lastOp.op = "resume" /\ lastOp.rc = OK) => TxRegs = <<0, 1, 3, 4, 6, 8, 10>>

\* C14 amended: the sync of resume writes every shadow address that is
\* writable and not volatile - 0x01, 0x03, 0x04, 0x06, 0x08, 0x0A; the
\* read-only revision register 0x00 is left out - each once, with its shadow
\* value, in ascending order: at every step of the sync the writes issued
\* are a prefix of that list, and the whole list when resume returns 0.
C14_ResyncReplay ==
    LET todo == <<1, 3, 4, 6, 8, 10>> IN
    lastOp.op = "resume" =>
        /\ Len(tx) <= Len(todo)
        /\ \A i \in DOMAIN tx : /\ tx[i].kind = "wr"
                                 /\ tx[i].reg = todo[i]
                                 /\ tx[i].val = cache[todo[i]]
        /\ lastOp.rc = OK => TxRegs = todo

\* A resume returned 0 after replaying six registers, among them a divider
\* code and a filter switch configured while the device was powered down.
C14_Witness ==
    /\ lastOp.op = "resume"
    /\ lastOp.rc = OK
    /\ Len(tx) = 6
    /\ tx[1].val # 139
    /\ tx[3].val # 0

\* C15: when a write of the sync of resume fails, the sync stops at once:
\* the failing write is the last transaction (nothing after it, no second
\* attempt), resume returns the bus error, the registers written before it
\* hold their new values on the device, the failing register and the device
\* are otherwise as they were, and the shadow is unchanged.
C15_SyncAbort ==
    [][/\ (pc = "r_sync" /\ lastOp'.rc = ETRANSPORT) =>
             /\ pc' = "idle"
             /\ Len(tx') = Len(tx) + 1
             /\ \A i \in DOMAIN tx : /\ tx'[i] = tx[i]
                                      /\ tx[i].reg < tx'[Len(tx')].reg
                                      /\ hw'[tx[i].reg] = tx[i].val
             /\ hw' = hw
             /\ cache' = cache
             /\ rpm' = "suspended"
       /\ (lastOp.op = "resume" /\ lastOp.rc = ETRANSPORT /\ lastOp'.op = "resume") =>
             (pc = "idle" /\ tx' = <<>>)]_vars

\* The third write of a sync failed: the two registers before it hold the
\* shadow values on the device, the failing one does not, and no more was sent.
C15_Witness ==
    /\ lastOp.op = "resume"
    /\ lastOp.rc = ETRANSPORT
    /\ pc = "idle"
    /\ Len(tx) = 3
    /\ hw[REG_GCTL] = cache[REG_GCTL]
    /\ hw[REG_OVFM] = cache[REG_OVFM]
    /\ hw[REG_HPF] # cache[REG_HPF]
    /\ hw[REG_SDEN] # cache[REG_SDEN]

\* C16: probe issues no bus transaction and does not touch the device; when
\* it succeeds the device is Unpowered (supplies off, reset line asserted)
\* with cache_only set and the shadow holds the default table overlaid with
\* global control 0x8B, overflow mask 0x00 and pin-enable select 0x0A; no
\* suspend or resume step runs before that: until probe has succeeded the
\* only operation is probe and no power callback is in progress.
C16_Attach ==
    /\ lastOp.op = "probe" =>
          /\ tx = <<>>
          /\ hw = cs5368_reg_defaults
          /\ supplies = 0
          /\ pc = "idle"
          /\ rpm = "suspended"
          /\ lastOp.rc # ETRANSPORT
          /\ lastOp.rc = OK <=> bound = "bound"
    /\ (lastOp.op = "probe" /\ lastOp.rc = OK) =>
          /\ PowerState = "Unpowered"
          /\ reset
          /\ cache_only
          /\ cache = (0 :> 128) @@ (1 :> 139) @@ (2 :> 255) @@ (3 :> 0) @@
                      (4 :> 0) @@ (6 :> 0) @@ (8 :> 0) @@ (10 :> 10)
    /\ bound # "bound" => (lastOp.op \in {"none", "probe"} /\ pc = "idle")
    /\ bound = "bound" => lastOp.op # "none"

\* Probe has succeeded and nothing ran since.
C16_Witness ==
    /\ lastOp.op = "probe"
    /\ lastOp.rc = OK
    /\ bound = "bound"
    /\ cache_only
    /\ cache[REG_GCTL] = 139
    /\ cache[REG_SDEN] = 10
    /\ hw[REG_GCTL] = 0

\* The global-control value v with bits 4-5 replaced by code.
WithCode(v, code) == ((v \div 64) * 64) + (code * 16) + (v % 16)

\* C17: a hw_params that returns 0 changes only bits 4-5 of the global
\* control register, to the divider code of the latched clock and the rate:
\* every other bit of it and every other register keep their values, in the
\* shadow and on the device; and once probe has succeeded the global-control
\* shadow has bits 4-5 in {0, 1, 3} and all other bits as in 0x8B.
C17_OnlyDividerBits ==
    [][/\ (lastOp'.op = "hw_params" /\ lastOp'.rc = OK) =>
             LET raw == RawDiv(mclk_freq, lastOp'.a1)
                 code == IF raw = 1 THEN 0 ELSE IF raw = 2 THEN 1 ELSE 3
             IN /\ raw \in {1, 2, 4}
                /\ cache' = [cache EXCEPT ![1] = WithCode(cache[1], code)]
                /\ \/ hw' = hw
                   \/ hw' = [hw EXCEPT ![1] = WithCode(cache[1], code)]
                /\ lastOp'.val = cache'[1]
       /\ bound' = "bound" =>
             /\ CodeOf(cache'[1]) \in {0, 1, 3}
             /\ WithCode(cache'[1], 0) = 139]_vars

\* hw_params returned 0 and set the divider code 3 in a shadow that held the
\* code 0 before and carries a filter switch.
C17_Witness ==
    /\ lastOp.op = "hw_params"
    /\ lastOp.rc = OK
    /\ lastOp.a2 = 49152000
    /\ lastOp.val = 187
    /\ cache[REG_GCTL] = 187
    /\ cache[REG_HPF] # 0
    /\ cache[REG_SDEN] = 10

\* C18: for master clocks >= 0 and rates of the modelled range, the divider
\* hw_params computes by two truncating divisions equals
\* raw_div = master_clock_hz / (sample_rate_hz * oversample_ratio), truncated,
\* with the ratio 256 below 54000, 128 below 108000, else 64; hw_params
\* succeeds exactly when raw_div is 1, 2 or 4 and then sets the code 0, 1 or
\* 3, whether or not the division leaves a remainder.
C18_Divider ==
    lastOp.op = "hw_params" =>
        LET m == lastOp.a2
            r == lastOp.a1
            raw == RawDiv(m, r)
        IN /\ m >= 0 /\ r > 0
           /\ mclk_div(m, r) = raw
           /\ lastOp.rc \in {OK, EINVAL}
           /\ lastOp.rc = OK <=> raw \in {1, 2, 4}
           /\ lastOp.rc = OK =>
                 /\ raw = 1 => CodeOf(lastOp.val) = 0
                 /\ raw = 2 => CodeOf(lastOp.val) = 1
                 /\ raw = 4 => CodeOf(lastOp.val) = 3
                 /\ CodeOf(cache[REG_GCTL]) = CodeOf(lastOp.val)

\* hw_params succeeded at the threshold rate 54000 with a clock that is one
\* short of 5 * rate * 128: raw_div is 4 and the remainder is not zero.
C18_Witness ==
    /\ lastOp.op = "hw_params"
    /\ lastOp.rc = OK
    /\ lastOp.a1 = 54000
    /\ lastOp.a2 = (5 * 54000 * 128) - 1
    /\ lastOp.a2 % (54000 * 128) # 0
    /\ CodeOf(lastOp.val) = 3

\* C19: whenever resume returns an error - the supplies could not be
\* enabled, or the sync failed - what it acquired has been released: the
\* supplies are disabled, the reset line is asserted and cache_only is set
\* (the device is Unpowered), so that a resume called again never raises the
\* enable count of the supplies to two.
C19_FailedResumeReleases ==
    /\ (lastOp.op = "resume" /\ lastOp.rc \in {ERESOURCE, ETRANSPORT}) =>
          /\ supplies = 0
          /\ reset
          /\ cache_only
          /\ PowerState = "Unpowered"
    /\ supplies <= 1

\* C20: once probe has succeeded, in every state - between the statements
\* of suspend and resume, after a failed suspend or resume, and with
\* configuration calls running between any two statements of a power
\* callback - cache_only = FALSE implies that the supplies are enabled and
\* the reset line is deasserted; and every bus transaction, of an operation,
\* of the sync or of a configuration call inside a callback, is issued with
\* the supplies enabled and the reset line deasserted.
C20_BypassCoversPowerDown ==
    [][/\ bound' = "bound" =>
             (~cache_only' => (supplies' > 0 /\ ~reset'))
       /\ (tx' # tx /\ tx' # <<>>) =>
             (supplies > 0 /\ ~reset /\ supplies' > 0 /\ ~reset')
       /\ (co' # co /\ co'.tx # <<>>) =>
             (supplies > 0 /\ ~reset /\ ~cache_only /\ co'.power = "Active")]_vars

\* A control toggle arrived during suspend, after cache_only was set and
\* before the reset line was asserted: the device was still active, yet
\* the toggle went to the shadow only.
C20_Witness ==
    /\ co.op = "control_put"
    /\ co.power = "Active"
    /\ co.only
    /\ co.rc = OK
    /\ co.tx = <<>>
    /\ pc = "s_disable"
    /\ reset

====
